---- MODULE Spec2Model ----
(***************************************************************************)
(* A model of the memory lifecycle and evolution engine of AgenticMemory:  *)
(* MemoryNote, SimpleEmbeddingRetriever and AgenticMemorySystem.           *)
(*                                                                         *)
(* Strings are sequences of one-character strings, so that tokenisation,   *)
(* concatenation and join are computed as the code computes them.          *)
(* A value that may be `undefined` in JavaScript is an option: <<>> is     *)
(* undefined and <<v>> is the value v.                                     *)
(* Every asynchronous function is cut at its awaits: one action per        *)
(* synchronous segment.                                                    *)
(***************************************************************************)
EXTENDS Integers, Sequences, FiniteSets, TLC

\* ---------------------------------------------------------------- bounds

\* The number of addNote invocations in one behaviour.
MaxCalls == 3

\* The addNote invocations in one behaviour of SpecEvolve.
MaxEvolveCalls == 2

\* The addNote invocations in one behaviour of SpecConsolidate.
MaxConsolidateCalls == 3

\* The evolution threshold is drawn from 1..MaxThreshold at construction.
MaxThreshold == 2

\* The documents a retriever used on its own holds at most (SpecRetriever).
MaxCorpus == 3

\* The documents of one addDocuments call on such a retriever.
MaxBatch == 2

\* The k of a direct search or query is drawn from 0..MaxK.
MaxK == 2

\* ------------------------------------------------------- options, strings

None == <<>>
Some(v) == <<v>>
IsDef(o) == Len(o) > 0
Val(o) == o[1]

Range(s) == {s[i] : i \in 1..Len(s)}

\* Array.prototype.join: the elements separated by sep.
RECURSIVE Join(_, _)
Join(ss, sep) ==
  IF ss = <<>> THEN <<>>
  ELSE IF Len(ss) = 1 THEN ss[1]
  ELSE ss[1] \o sep \o Join(Tail(ss), sep)

\* The string literals of the source.
General == <<"G", "e", "n", "e", "r", "a", "l">>
Undefined == <<"u", "n", "d", "e", "f", "i", "n", "e", "d">>
KeywordsSep == <<" ", "k", "e", "y", "w", "o", "r", "d", "s", ":", " ">>
CommaSpace == <<",", " ">>
Space == <<" ">>
SpaceCommaSpace == <<" ", ",", " ">>

\* String conversion of a value that may be undefined (string concatenation
\* and template literals render undefined as "undefined").
Str(o) == IF IsDef(o) THEN Val(o) ELSE Undefined

\* ------------------------------------------------------------- tokenizer

\* String.prototype.toLowerCase on the letters the model uses.
Lower(c) ==
  CASE c = "A" -> "a"
    [] c = "B" -> "b"
    [] c = "G" -> "g"
    [] c = "X" -> "x"
    [] OTHER -> c

Punct == {".", ",", "!", "?"}
White == {" ", "\t", "\n"}

PunctToSpace(c) == IF c \in Punct THEN " " ELSE c

\* text.toLowerCase()
RECURSIVE toLowerCase(_)
toLowerCase(text) ==
  IF text = <<>> THEN <<>> ELSE <<Lower(Head(text))>> \o toLowerCase(Tail(text))

\* The four replace calls: every ".", ",", "!" and "?" becomes a space.
RECURSIVE replacePunct(_)
replacePunct(text) ==
  IF text = <<>> THEN <<>>
  ELSE <<PunctToSpace(Head(text))>> \o replacePunct(Tail(text))

\* split(/\s+/) followed by filter(token => token.length > 0): the maximal runs
\* of characters that are not white space, from position i on, cur being the
\* run read so far.
RECURSIVE SplitWhite(_, _, _)
SplitWhite(s, i, cur) ==
  IF i > Len(s) THEN (IF cur = <<>> THEN <<>> ELSE <<cur>>)
  ELSE IF s[i] \in White
       THEN (IF cur = <<>> THEN <<>> ELSE <<cur>>) \o SplitWhite(s, i + 1, <<>>)
       ELSE SplitWhite(s, i + 1, Append(cur, s[i]))

\* text.toLowerCase(), the four replace calls, split and filter.
simpleTokenize(text) ==
  SplitWhite(replacePunct(toLowerCase(text)), 1, <<>>)

\* ------------------------------------------------------------- retriever

\* A variant that takes the documents as the new corpus in every case.
addDocuments_Replaces(corp, documents) ==
  IF Len(documents) = 0 THEN corp ELSE documents

\* A variant that skips a document whose text the corpus holds already.
addDocuments_SkipsKnown(corp, documents) ==
  corp \o SelectSeq(documents, LAMBDA doc : doc \notin Range(corp))

\* A variant that takes the empty array for a reset of the corpus.
addDocuments_ResetsOnEmpty(corp, documents) ==
  IF Len(documents) = 0 THEN <<>> ELSE corp \o documents

\* SimpleEmbeddingRetriever.addDocuments on the corpus (documentIds is written
\* and never read, and is a function of the corpus: it is left out).
addDocuments(corp, documents) ==
  IF Len(documents) = 0 THEN corp
  ELSE IF Len(corp) = 0 THEN documents
  ELSE corp \o documents

\* What addDocuments does to the array a caller holds: on an empty corpus
\* `this.corpus = documents` makes the caller's array the corpus, and on a
\* corpus that is a caller's array `this.corpus.push(...documents)` pushes onto
\* that array.
callerArrayAfter(corp, held, documents) ==
  IF Len(documents) = 0 THEN held
  ELSE IF Len(corp) = 0 THEN Some(documents)
  ELSE IF IsDef(held) THEN Some(corp \o documents)
  ELSE None

\* queryTokens.filter(token => docTokens.includes(token)).length
CommonCount(queryTokens, docTokens) ==
  Cardinality({i \in 1..Len(queryTokens) : queryTokens[i] \in Range(docTokens)})

\* A score common / sqrt(qlen * dlen) is kept as the pair <<common, qlen * dlen>>;
\* a zero denominator is 0 / 0 = NaN.
Score(queryTokens, doc) ==
  LET docTokens == simpleTokenize(doc)
  IN <<CommonCount(queryTokens, docTokens), Len(queryTokens) * Len(docTokens)>>

IsNaN(s) == s[2] = 0

\* b[1] - a[1] < 0 for scores a = s and b = t, i.e. s > t; a comparison with NaN
\* is never negative or positive.
ScoreGreater(s, t) ==
  /\ ~IsNaN(s)
  /\ ~IsNaN(t)
  /\ s[1] * s[1] * t[2] > t[1] * t[1] * s[2]

\* Array.prototype.sort is stable: i comes before j when its score is greater,
\* or when neither is greater and i is the earlier position.
ComesBefore(scores, i, j) ==
  \/ ScoreGreater(scores[i], scores[j])
  \/ ~ScoreGreater(scores[j], scores[i]) /\ i < j

\* getTopIndices: positions (from 0) by descending score, the first k of them.
getTopIndices(scores, k) ==
  LET n == Len(scores)
      rank(i) == Cardinality({j \in 1..n : j # i /\ ComesBefore(scores, j, i)})
      sorted == [r \in 1..n |-> (CHOOSE i \in 1..n : rank(i) = r - 1) - 1]
  IN SubSeq(sorted, 1, IF k < n THEN k ELSE n)

\* this.corpus.map(doc => score of doc)
RECURSIVE ScoresOf(_, _)
ScoresOf(queryTokens, corp) ==
  IF corp = <<>> THEN <<>>
  ELSE <<Score(queryTokens, Head(corp))>> \o ScoresOf(queryTokens, Tail(corp))

\* A variant that leaves out the documents that share no token with the query.
search_OmitsNoMatch(corp, query, k) ==
  IF Len(corp) = 0 THEN <<>>
  ELSE LET scores == ScoresOf(simpleTokenize(query), corp)
       IN SelectSeq(getTopIndices(scores, k), LAMBDA i : scores[i + 1][1] > 0)

search(corp, query, k) ==
  IF Len(corp) = 0 THEN <<>>
  ELSE getTopIndices(ScoresOf(simpleTokenize(query), corp), k)

\* The comparator (a, b) => b[1] - a[1] returns NaN, which sort reads as 0, when
\* either score is NaN: it is a consistent comparator unless a NaN score sits
\* with two scores of which one is greater.
ConsistentComparator(scores) ==
  ~ \E i, j, l \in 1..Len(scores) :
      IsNaN(scores[i]) /\ ScoreGreater(scores[j], scores[l])

\* indexedScores.sort(...) as the positions (from 0) in sorted order: the stable
\* order getTopIndices computes when the comparator is consistent; otherwise the
\* order is implementation-defined, any permutation.
sortOutcomes(scores) ==
  IF ConsistentComparator(scores) THEN {getTopIndices(scores, Len(scores))}
  ELSE {[r \in 1..Len(scores) |-> f[r] - 1] : f \in Permutations(1..Len(scores))}

\* A variant that returns one position at least from a corpus that has one.
searchOutcomes_AtLeastOne(corp, query, k) ==
  IF Len(corp) = 0 THEN {<<>>}
  ELSE {SubSeq(order, 1, IF k < 1 THEN 1 ELSE IF k < Len(corp) THEN k ELSE Len(corp)) :
          order \in sortOutcomes(ScoresOf(simpleTokenize(query), corp))}

\* What search can return.
searchOutcomes(corp, query, k) ==
  IF Len(corp) = 0 THEN {<<>>}
  ELSE {SubSeq(order, 1, IF k < Len(corp) THEN k ELSE Len(corp)) :
          order \in sortOutcomes(ScoresOf(simpleTokenize(query), corp))}

\* A variant that sorts the corpus itself and keeps its first k documents.
retrieverAfterSearch_KeepsTopK(corp, query, k) ==
  LET top == search(corp, query, k)
  IN [n \in 1..Len(top) |-> corp[top[n] + 1]]

\* The corpus after search: search assigns nothing to this.corpus (corpus.map
\* builds a new array, and the sort is of that array).
retrieverAfterSearch(corp, query, k) == corp

\* ------------------------------------------------------------ MemoryNote

\* Keys of the memories object. nanoid() yields a fresh 21-character id that
\* is never a canonical array index; a caller may pass any string as
\* options.id, among them canonical array indices such as "1".
NanoId(p) == <<"nanoid", p>>
IntKey(n) == <<"int", n>>
IsArrayIndex(key) == key[1] = "int"

\* A string is falsy when it is empty or undefined; an array never is.
TruthyString(o) == IsDef(o) /\ Len(Val(o)) > 0

\* The constructor's condition for starting the background analysis:
\* !data.keywords || !data.context || !data.tags.
NeedsAnalysis(data) ==
  \/ ~IsDef(data.keywords)
  \/ ~TruthyString(data.context)
  \/ ~IsDef(data.tags)

\* The decimal digits of n in a field of w characters, zero-padded.
Digits == <<"0", "1", "2", "3", "4", "5", "6", "7", "8", "9">>

RECURSIVE Pad(_, _)
Pad(n, w) ==
  IF w = 0 THEN <<>> ELSE Pad(n \div 10, w - 1) \o <<Digits[(n % 10) + 1]>>

\* Date.prototype.toISOString for a UTC date of the years 0000 to 9999:
\* YYYY-MM-DDTHH:mm:ss.sssZ.
toISOString(date) ==
  Pad(date.year, 4) \o <<"-">> \o Pad(date.month, 2) \o <<"-">>
    \o Pad(date.day, 2) \o <<"T">> \o Pad(date.hour, 2) \o <<":">>
    \o Pad(date.minute, 2) \o <<":">> \o Pad(date.second, 2) \o <<".">>
    \o Pad(date.ms, 3) \o <<"Z">>

\* String.prototype.replace(/[-:]/g, ''): every '-' and ':' is removed.
RECURSIVE removeDashColon(_)
removeDashColon(text) ==
  IF text = <<>> THEN <<>>
  ELSE (IF Head(text) \in {"-", ":"} THEN <<>> ELSE <<Head(text)>>)
         \o removeDashColon(Tail(text))

\* String.prototype.slice(0, end).
slice(text, end) == SubSeq(text, 1, IF end < Len(text) THEN end ELSE Len(text))

\* The constructor's currentTime for the clock reading now.
CurrentTime(now) == slice(removeDashColon(toISOString(now)), 12)

\* The clock reading at the construction of the note of call p in the system
\* specifications: callers arrive a minute apart.
Clock(p) ==
  [year |-> 2026, month |-> 11, day |-> 5, hour |-> 3, minute |-> p % 60,
   second |-> 0, ms |-> 0]

\* The MemoryNote constructor at clock reading now, for call p with
\* data = {content, timestamp: time, ...options}; the callers modelled pass no
\* time, last_accessed, importance_score or retrieval_count.
NewNoteAt(now, p, content, data) ==
  [ id |-> IF IsDef(data.id) THEN Val(data.id) ELSE NanoId(p),
    content |-> content,
    importance_score |-> 1,
    retrieval_count |-> 0,
    timestamp |-> CurrentTime(now),
    last_accessed |-> CurrentTime(now),
    links |-> IF IsDef(data.links) THEN Val(data.links) ELSE <<>>,
    keywords |-> IF IsDef(data.keywords) THEN data.keywords ELSE Some(<<>>),
    context |-> IF TruthyString(data.context) THEN data.context ELSE Some(General),
    tags |-> IF IsDef(data.tags) THEN data.tags ELSE Some(<<>>) ]

\* The note addNote constructs for call p.
NewNote(p, content, data) == NewNoteAt(Clock(p), p, content, data)

\* What analyzeContent resolves to, by what the completion call did:
\* a rejection gives the catch block's defaults; text that JSON.parse refuses
\* is returned as it is, a string, whose keywords, context and tags read as
\* undefined; an object gives its fields (absent ones undefined).
AnalysisDefaults ==
  [keywords |-> Some(<<>>), context |-> Some(General), tags |-> Some(<<>>)]

AnalysisOfText == [keywords |-> None, context |-> None, tags |-> None]

analyzeContent(completion) ==
  CASE completion.kind = "reject" -> AnalysisDefaults
    [] completion.kind = "text" -> AnalysisOfText
    [] OTHER -> [keywords |-> completion.keywords,
                 context |-> completion.context,
                 tags |-> completion.tags]

\* analyzeAndUpdateMetadata after its await: each field still at its default
\* (or undefined) is overwritten by the analysis.
applyAnalysis(note, analysis) ==
  [note EXCEPT
     !.keywords = IF ~IsDef(@) \/ Len(Val(@)) = 0 THEN analysis.keywords ELSE @,
     !.context = IF ~TruthyString(@) \/ Val(@) = General
                 THEN analysis.context ELSE @,
     !.tags = IF ~IsDef(@) \/ Len(Val(@)) = 0 THEN analysis.tags ELSE @]

\* --------------------------------------------------------- memories object

\* memories is the sequence of <<key, note object>> entries in the order
\* Object.keys / Object.values enumerate them: array-index keys first, in
\* ascending numeric order, then the other keys in insertion order.
KeyPos(mem, key) ==
  IF \E i \in 1..Len(mem) : mem[i].key = key
  THEN CHOOSE i \in 1..Len(mem) : mem[i].key = key
  ELSE 0

InsertAt(mem, i, e) == SubSeq(mem, 1, i - 1) \o <<e>> \o SubSeq(mem, i, Len(mem))

\* this.memories[key] = obj
StorePut(mem, key, obj) ==
  LET e == [key |-> key, obj |-> obj]
      at == KeyPos(mem, key)
  IN IF at > 0 THEN [mem EXCEPT ![at] = e]
     ELSE IF IsArrayIndex(key)
     THEN InsertAt(mem,
            1 + Cardinality({i \in 1..Len(mem) :
                               IsArrayIndex(mem[i].key) /\ mem[i].key[2] < key[2]}),
            e)
     ELSE Append(mem, e)

\* Object.values(this.memories), as note objects.
Values(mem) == [i \in 1..Len(mem) |-> mem[i].obj]

\* ------------------------------------------------------ AgenticMemorySystem

\* The k of the neighbour search in processMemory.
NeighborK == 5

VARIABLES
  notes,         \* the MemoryNote objects created so far; call p created notes[p]
  memories,      \* this.memories, in enumeration order
  corpus,        \* this.retriever.corpus
  corpusOwner,   \* history: the note object each corpus document was built from
  evoCnt,        \* this.evoCnt
  evoThreshold,  \* this.evoThreshold
  calls,         \* the addNote invocations: where each stands (pc) and its locals:
                 \* neighborMemory, indices, response, the evolution label;
                 \* data (the options the caller passed) and snapshot are history,
                 \* the note objects the indices denoted when they were computed
  analysis,      \* per note: "none", "pending" or "done" (the constructor's analysis)
  nConsolidate,  \* history: the number of consolidateMemories invocations
  lastCall,      \* history: the last direct call of a retriever or query method,
                 \* with its arguments and what it returned
  callerArray    \* the array a caller of addDocuments passed when the corpus was
                 \* empty and still holds, as the caller sees it; None when
                 \* this.corpus is an array no caller holds

vars == <<notes, memories, corpus, corpusOwner, evoCnt, evoThreshold, calls,
          analysis, nConsolidate, lastCall, callerArray>>

\* The document addNote indexes for a note: context + " keywords: " + keywords.join(", ").
\* keywords.join throws on undefined keywords: the note has then no document.
noteDocument(note) ==
  IF IsDef(note.keywords)
  THEN Some(Str(note.context) \o KeywordsSep \o Join(Val(note.keywords), CommaSpace))
  ELSE None

\* A variant that leaves the tags out of the document, as addNote's document does.
consolidatedDocument_NoTags(memory) ==
  IF IsDef(memory.keywords) /\ IsDef(memory.tags)
  THEN Some(memory.content \o SpaceCommaSpace \o Str(memory.context) \o Space
            \o Join(Val(memory.keywords), Space))
  ELSE None

\* A variant that builds the document addNote builds: context and keywords.
consolidatedDocument_AsAddNote(memory) ==
  IF IsDef(memory.keywords) /\ IsDef(memory.tags)
  THEN Some(Str(memory.context) \o KeywordsSep \o Join(Val(memory.keywords), CommaSpace))
  ELSE None

\* The document consolidateMemories builds for a memory:
\* `${content} , ${context} ${keywords.join(' ')} ${tags.join(' ')}`; either join
\* throws on undefined.
consolidatedDocument(memory) ==
  IF IsDef(memory.keywords) /\ IsDef(memory.tags)
  THEN Some(memory.content \o SpaceCommaSpace \o Str(memory.context) \o Space
            \o Join(Val(memory.keywords), Space) \o Space
            \o Join(Val(memory.tags), Space))
  ELSE None

\* consolidateMemories: a new retriever, then one addDocuments per memory in
\* Object.values order, up to the first memory whose document throws.
\* The result is the corpus, whose objects the documents belong to, and whether it threw.
RECURSIVE consolidateFrom(_, _, _, _)
consolidateFrom(ns, objs, corp, owners) ==
  IF objs = <<>> THEN [corpus |-> corp, owners |-> owners, threw |-> FALSE]
  ELSE LET doc == consolidatedDocument(ns[Head(objs)])
       IN IF ~IsDef(doc) THEN [corpus |-> corp, owners |-> owners, threw |-> TRUE]
          ELSE consolidateFrom(ns, Tail(objs), addDocuments(corp, <<Val(doc)>>),
                               Append(owners, Head(objs)))

consolidateMemories(ns, mem) == consolidateFrom(ns, Values(mem), <<>>, <<>>)

\* A line of a transcript: the text rendered for the memory at a position of
\* Object.values(this.memories), for a hit of the search or for a link of a hit.
Line(kind, mem, i) == [kind |-> kind, index |-> i, obj |-> mem[i + 1].obj]

RECURSIVE hitLines(_, _, _)
hitLines(mem, indices, n) ==
  IF n > Len(indices) THEN <<>>
  ELSE <<Line("hit", mem, indices[n])>> \o hitLines(mem, indices, n + 1)

\* A variant that asks the retriever for one position more.
findRelatedMemories_OneMore(mem, corp, query, k) ==
  IF Len(mem) = 0 THEN [memoryStr |-> <<>>, indices |-> <<>>, threw |-> FALSE]
  ELSE LET indices == search(corp, query, k + 1)
           threw == \E n \in 1..Len(indices) : indices[n] >= Len(mem)
       IN [memoryStr |-> IF threw THEN <<>> ELSE hitLines(mem, indices, 1),
           indices |-> indices,
           threw |-> threw]

\* findRelatedMemories(query, 5) as processMemory uses it: the transcript (one
\* line per position; "" is no line), the positions, and whether rendering the
\* transcript threw (allMemories[i] undefined).
findRelatedMemories(mem, corp, query, k) ==
  IF Len(mem) = 0 THEN [memoryStr |-> <<>>, indices |-> <<>>, threw |-> FALSE]
  ELSE LET indices == search(corp, query, k)
           threw == \E n \in 1..Len(indices) : indices[n] >= Len(mem)
       IN [memoryStr |-> IF threw THEN <<>> ELSE hitLines(mem, indices, 1),
           indices |-> indices,
           threw |-> threw]

\* The inner loop of findRelatedMemoriesRaw from link n of a hit on: a line per
\* link, then `if (j >= k) break; j += 1`; a link without a memory throws.
RECURSIVE rawLinks(_, _, _, _, _, _)
rawLinks(mem, neighborhood, n, k, j, memoryStr) ==
  IF n > Len(neighborhood) THEN [memoryStr |-> memoryStr, j |-> j, threw |-> FALSE]
  ELSE IF neighborhood[n] >= Len(mem)
  THEN [memoryStr |-> memoryStr, j |-> j, threw |-> TRUE]
  ELSE LET next == Append(memoryStr, Line("link", mem, neighborhood[n]))
       IN IF j >= k THEN [memoryStr |-> next, j |-> j, threw |-> FALSE]
          ELSE rawLinks(mem, neighborhood, n + 1, k, j + 1, next)

\* A variant in which reaching the cap ends the whole traversal (a return in the
\* place of the break).
RECURSIVE rawHits_StopsAtCap(_, _, _, _, _, _, _)
rawHits_StopsAtCap(ns, mem, indices, n, k, j, memoryStr) ==
  IF n > Len(indices) THEN [memoryStr |-> memoryStr, threw |-> FALSE]
  ELSE IF indices[n] >= Len(mem) THEN [memoryStr |-> memoryStr, threw |-> TRUE]
  ELSE LET linked == rawLinks(mem, ns[mem[indices[n] + 1].obj].links, 1, k, j,
                              Append(memoryStr, Line("hit", mem, indices[n])))
       IN IF linked.threw THEN [memoryStr |-> linked.memoryStr, threw |-> TRUE]
          ELSE IF linked.j >= k THEN [memoryStr |-> linked.memoryStr, threw |-> FALSE]
          ELSE rawHits_StopsAtCap(ns, mem, indices, n + 1, k, linked.j,
                                  linked.memoryStr)

\* A variant that goes on from the first link of a hit to that record's links.
RECURSIVE rawHits_FollowsLinks(_, _, _, _, _, _, _)
rawHits_FollowsLinks(ns, mem, indices, n, k, j, memoryStr) ==
  IF n > Len(indices) THEN [memoryStr |-> memoryStr, threw |-> FALSE]
  ELSE IF indices[n] >= Len(mem) THEN [memoryStr |-> memoryStr, threw |-> TRUE]
  ELSE LET links == ns[mem[indices[n] + 1].obj].links
           reached == IF links # <<>> /\ links[1] < Len(mem)
                      THEN links \o ns[mem[links[1] + 1].obj].links
                      ELSE links
           linked == rawLinks(mem, reached, 1, k, j,
                              Append(memoryStr, Line("hit", mem, indices[n])))
       IN IF linked.threw THEN [memoryStr |-> linked.memoryStr, threw |-> TRUE]
          ELSE rawHits_FollowsLinks(ns, mem, indices, n + 1, k, linked.j,
                                    linked.memoryStr)

\* The outer loop of findRelatedMemoriesRaw from hit n on: the hit's line, then
\* the lines of its links; j is shared by all hits.
RECURSIVE rawHits(_, _, _, _, _, _, _)
rawHits(ns, mem, indices, n, k, j, memoryStr) ==
  IF n > Len(indices) THEN [memoryStr |-> memoryStr, threw |-> FALSE]
  ELSE IF indices[n] >= Len(mem) THEN [memoryStr |-> memoryStr, threw |-> TRUE]
  ELSE LET linked == rawLinks(mem, ns[mem[indices[n] + 1].obj].links, 1, k, j,
                              Append(memoryStr, Line("hit", mem, indices[n])))
       IN IF linked.threw THEN [memoryStr |-> linked.memoryStr, threw |-> TRUE]
          ELSE rawHits(ns, mem, indices, n + 1, k, linked.j, linked.memoryStr)

\* findRelatedMemoriesRaw(query, k): the transcript it returns, or that it threw.
findRelatedMemoriesRaw(ns, mem, corp, query, k) ==
  IF Len(mem) = 0 THEN [memoryStr |-> <<>>, threw |-> FALSE]
  ELSE rawHits(ns, mem, search(corp, query, k), 1, k, 0, <<>>)

\* A variant that merges tags_to_update into the note's tags.
strengthen_MergeTags(ns, p, r) ==
  IF ~IsDef(r.suggested_connections) THEN [notes |-> ns, threw |-> TRUE]
  ELSE [notes |-> [ns EXCEPT ![p].links = @ \o Val(r.suggested_connections),
                             ![p].tags = Some(Val(@) \o Val(r.tags_to_update))],
        threw |-> FALSE]

\* The "strengthen" action on note p: spreading undefined suggested_connections
\* throws before anything is written.
strengthen(ns, p, r) ==
  IF ~IsDef(r.suggested_connections) THEN [notes |-> ns, threw |-> TRUE]
  ELSE [notes |-> [ns EXCEPT ![p].links = @ \o Val(r.suggested_connections),
                             ![p].tags = r.tags_to_update],
        threw |-> FALSE]

Min(a, b) == IF a < b THEN a ELSE b

\* A variant of the loop that writes the tags and never the context.
RECURSIVE updateNeighborFrom_KeepContext(_, _, _, _, _, _)
updateNeighborFrom_KeepContext(ns, notesList, indices, r, bound, i) ==
  IF i >= bound THEN [notes |-> ns, threw |-> FALSE]
  ELSE IF ~IsDef(r.new_context_neighborhood) \/ indices[i + 1] >= Len(notesList)
  THEN [notes |-> ns, threw |-> TRUE]
  ELSE LET notetmp == notesList[indices[i + 1] + 1]
           tag == Val(r.new_tags_neighborhood)[i + 1]
       IN updateNeighborFrom_KeepContext(
            [ns EXCEPT ![notetmp].tags = Some(tag)],
            notesList, indices, r, bound, i + 1)

\* A variant of the loop that writes the new context over the content as well.
RECURSIVE updateNeighborFrom_WritesContent(_, _, _, _, _, _)
updateNeighborFrom_WritesContent(ns, notesList, indices, r, bound, i) ==
  IF i >= bound THEN [notes |-> ns, threw |-> FALSE]
  ELSE IF ~IsDef(r.new_context_neighborhood) \/ indices[i + 1] >= Len(notesList)
  THEN [notes |-> ns, threw |-> TRUE]
  ELSE LET newContextNeighborhood == Val(r.new_context_neighborhood)
           notetmp == notesList[indices[i + 1] + 1]
           tag == Val(r.new_tags_neighborhood)[i + 1]
           context == IF i < Len(newContextNeighborhood)
                      THEN Some(newContextNeighborhood[i + 1])
                      ELSE ns[notetmp].context
       IN updateNeighborFrom_WritesContent(
            [ns EXCEPT ![notetmp].tags = Some(tag), ![notetmp].context = context,
                       ![notetmp].content = Str(context)],
            notesList, indices, r, bound, i + 1)

\* The loop of "update_neighbor" from iteration i (from 0) on.
RECURSIVE updateNeighborFrom(_, _, _, _, _, _)
updateNeighborFrom(ns, notesList, indices, r, bound, i) ==
  IF i >= bound THEN [notes |-> ns, threw |-> FALSE]
  ELSE IF ~IsDef(r.new_context_neighborhood) \/ indices[i + 1] >= Len(notesList)
  THEN [notes |-> ns, threw |-> TRUE]
  ELSE LET newContextNeighborhood == Val(r.new_context_neighborhood)
           notetmp == notesList[indices[i + 1] + 1]
           tag == Val(r.new_tags_neighborhood)[i + 1]
           context == IF i < Len(newContextNeighborhood)
                      THEN Some(newContextNeighborhood[i + 1])
                      ELSE ns[notetmp].context
       IN updateNeighborFrom(
            [ns EXCEPT ![notetmp].tags = Some(tag), ![notetmp].context = context],
            notesList, indices, r, bound, i + 1)

\* The "update_neighbor" action: new_tags_neighborhood.length throws on undefined.
updateNeighbor(ns, mem, indices, r) ==
  IF ~IsDef(r.new_tags_neighborhood) THEN [notes |-> ns, threw |-> TRUE]
  ELSE updateNeighborFrom(ns, Values(mem), indices, r,
                          Min(Len(indices), Len(Val(r.new_tags_neighborhood))), 0)

\* A variant that applies each action name once, at its first occurrence.
RECURSIVE applyActions_EachNameOnce(_, _, _, _, _, _)
applyActions_EachNameOnce(ns, mem, p, indices, r, actions) ==
  IF actions = <<>> THEN [notes |-> ns, threw |-> FALSE]
  ELSE LET one == CASE Head(actions) = "strengthen" -> strengthen(ns, p, r)
                    [] Head(actions) = "update_neighbor" ->
                         updateNeighbor(ns, mem, indices, r)
                    [] OTHER -> [notes |-> ns, threw |-> FALSE]
       IN IF one.threw THEN one
          ELSE applyActions_EachNameOnce(
                 one.notes, mem, p, indices, r,
                 SelectSeq(Tail(actions), LAMBDA a : a # Head(actions)))

\* for (const action of actions), in order; an action of another name does nothing.
RECURSIVE applyActions(_, _, _, _, _, _)
applyActions(ns, mem, p, indices, r, actions) ==
  IF actions = <<>> THEN [notes |-> ns, threw |-> FALSE]
  ELSE LET one == CASE Head(actions) = "strengthen" -> strengthen(ns, p, r)
                    [] Head(actions) = "update_neighbor" ->
                         updateNeighbor(ns, mem, indices, r)
                    [] OTHER -> [notes |-> ns, threw |-> FALSE]
       IN IF one.threw THEN one
          ELSE applyActions(one.notes, mem, p, indices, r, Tail(actions))

\* A variant that applies the actions whatever should_evolve says.
processResponse_IgnoreFlag(ns, mem, p, indices, r) ==
  CASE r.kind = "reject" -> [notes |-> ns, threw |-> TRUE, label |-> FALSE]
    [] r.kind = "text" -> [notes |-> ns, threw |-> FALSE, label |-> FALSE]
    [] OTHER ->
         IF ~IsDef(r.actions)
         THEN [notes |-> ns, threw |-> TRUE, label |-> r.should_evolve]
         ELSE LET done == applyActions(ns, mem, p, indices, r, Val(r.actions))
              IN [notes |-> done.notes, threw |-> done.threw,
                  label |-> r.should_evolve]

\* processMemory after the completion call settled with r. r.kind is "reject" (the
\* call threw), "text" (a string JSON.parse refuses: it is then read as the
\* response, and its should_evolve is undefined) or "object".
processResponse(ns, mem, p, indices, r) ==
  CASE r.kind = "reject" -> [notes |-> ns, threw |-> TRUE, label |-> FALSE]
    [] r.kind = "text" -> [notes |-> ns, threw |-> FALSE, label |-> FALSE]
    [] OTHER ->
         IF ~r.should_evolve THEN [notes |-> ns, threw |-> FALSE, label |-> FALSE]
         ELSE IF ~IsDef(r.actions) THEN [notes |-> ns, threw |-> TRUE, label |-> TRUE]
         ELSE LET done == applyActions(ns, mem, p, indices, r, Val(r.actions))
              IN [notes |-> done.notes, threw |-> done.threw, label |-> TRUE]

\* ---------------------------------------------------------------- inputs

\* What a completion call can settle with.
Rejected == [kind |-> "reject"]
Unparseable == [kind |-> "text"]

Decision(se, acts, sc, ttu, ncn, ntn) ==
  [kind |-> "object", should_evolve |-> se, actions |-> acts,
   suggested_connections |-> sc, tags_to_update |-> ttu,
   new_context_neighborhood |-> ncn, new_tags_neighborhood |-> ntn]

Analysed(kw, ctx, tags) ==
  [kind |-> "object", keywords |-> kw, context |-> ctx, tags |-> tags]

Options(id, kw, ctx, tags, links) ==
  [id |-> id, keywords |-> kw, context |-> ctx, tags |-> tags, links |-> links]

\* The texts of the bounded inputs.
TxtA == <<"a">>
TxtB == <<"b">>
TxtX == <<"x">>
TxtY == <<"y">>
TxtAB == <<"A", " ", "b", ".">>

\* addNote(content) and addNote(content, time, options) with all metadata given
\* (no analysis is started then), with and without an id.
NoOptions == Options(None, None, None, None, None)
WithMetadata == Options(None, Some(<<TxtB>>), Some(TxtB), Some(<<TxtY>>), Some(<<0>>))
WithId(n) == Options(Some(IntKey(n)), Some(<<TxtA>>), Some(TxtAB), Some(<<>>), None)

\* Options whose links name position 1.
WithLinkOne == Options(None, Some(<<TxtA>>), Some(TxtA), Some(<<TxtY>>), Some(<<1>>))

\* Options that leave the tags to the analysis and pass an empty list of
\* keywords, and options that pass all three with an empty context.
EmptyKeywords == Options(None, Some(<<>>), Some(TxtB), None, None)
EmptyContext == Options(None, Some(<<TxtB>>), Some(<<>>), Some(<<TxtY>>), None)

\* Decisions of the completion collaborator.
DontEvolve ==
  Decision(FALSE, Some(<<"strengthen", "update_neighbor">>), Some(<<0>>),
           Some(<<TxtX>>), Some(<<TxtA>>), Some(<<<<TxtX>>>>))
Strengthen == Decision(TRUE, Some(<<"strengthen">>), Some(<<0>>), Some(<<TxtX>>),
                       Some(<<>>), Some(<<>>))
StrengthenTwice == Decision(TRUE, Some(<<"strengthen">>), Some(<<0, 0>>), Some(<<TxtX>>),
                            Some(<<>>), Some(<<>>))
StrengthenEmpty == Decision(TRUE, Some(<<"strengthen">>), Some(<<>>), Some(<<>>),
                            Some(<<>>), Some(<<>>))
UpdateNeighbor == Decision(TRUE, Some(<<"update_neighbor">>), Some(<<>>), Some(<<>>),
                           Some(<<TxtA>>), Some(<<<<TxtY>>, <<TxtX>>>>))
UpdateTagsOnly == Decision(TRUE, Some(<<"update_neighbor">>), Some(<<>>), Some(<<>>),
                           Some(<<>>), Some(<<<<TxtX>>>>))
UpdateSix == Decision(TRUE, Some(<<"update_neighbor">>), Some(<<>>), Some(<<>>),
                      Some(<<>>),
                      Some(<<<<TxtX>>, <<TxtX>>, <<TxtX>>, <<TxtX>>, <<TxtX>>, <<TxtX>>>>))
NoActions == Decision(TRUE, None, None, None, None, None)

\* Decisions whose actions list names an action twice, names an action the code
\* does not know, and names an action that throws after one that wrote.
StrengthenStrengthen ==
  Decision(TRUE, Some(<<"strengthen", "strengthen">>), Some(<<0>>), Some(<<TxtX>>),
           Some(<<>>), Some(<<>>))
ArchiveUpdateStrengthen ==
  Decision(TRUE, Some(<<"archive", "update_neighbor", "strengthen">>), Some(<<1>>),
           Some(<<TxtX>>), Some(<<TxtA>>), Some(<<<<TxtY>>>>))
StrengthenThenThrow ==
  Decision(TRUE, Some(<<"strengthen", "update_neighbor">>), Some(<<0>>),
           Some(<<TxtX>>), None, None)

GoodAnalysis == Analysed(Some(<<TxtA>>), Some(TxtAB), Some(<<TxtY>>))

\* ------------------------------------------------------------------ state

\* The state after construction, but for the threshold.
InitStore ==
  /\ notes = <<>>
  /\ memories = <<>>
  /\ corpus = <<>>
  /\ corpusOwner = <<>>
  /\ evoCnt = 0
  /\ calls = <<>>
  /\ analysis = <<>>
  /\ nConsolidate = 0
  /\ lastCall = [op |-> "none"]
  /\ callerArray = None

\* addNote up to its first suspension: the note is constructed (the constructor
\* starts the analysis call when metadata is missing), and processMemory runs
\* findRelatedMemories, whose body is synchronous, up to `await`.
Invoke(content, options) ==
  LET p == Len(notes) + 1
      note == NewNote(p, content, options)
      found == findRelatedMemories(memories, corpus, note.content, NeighborK)
  IN /\ notes' = Append(notes, note)
     /\ analysis' = Append(analysis,
                           IF NeedsAnalysis(options) THEN "pending" ELSE "none")
     /\ calls' = Append(calls,
          [pc |-> IF found.threw THEN "rejected" ELSE "searched",
           neighborMemory |-> found.memoryStr,
           indices |-> IF found.threw THEN <<>> ELSE found.indices,
           data |-> options,
           snapshot |-> IF found.threw THEN <<>>
                        ELSE [n \in 1..Len(found.indices) |->
                                memories[found.indices[n] + 1].obj],
           response |-> None,
           label |-> FALSE])
     /\ UNCHANGED <<memories, corpus, corpusOwner, evoCnt, evoThreshold,
                    nConsolidate, lastCall, callerArray>>

\* processMemory between its two awaits: the prompt is built and the decision
\* call is issued (the prompt goes to the collaborator and is not kept).
BuildPrompt(p) ==
  /\ calls[p].pc = "searched"
  /\ calls' = [calls EXCEPT ![p].pc = "awaiting"]
  /\ UNCHANGED <<notes, memories, corpus, corpusOwner, evoCnt, evoThreshold,
                 analysis, nConsolidate, lastCall, callerArray>>

\* processMemory after the decision call settled with r, to its return or throw.
DecisionReturn(p, r) ==
  /\ calls[p].pc = "awaiting"
  /\ LET out == processResponse(notes, memories, p, calls[p].indices, r)
     IN /\ notes' = out.notes
        /\ calls' = [calls EXCEPT
                       ![p].pc = IF out.threw THEN "rejected" ELSE "decided",
                       ![p].response = Some(r),
                       ![p].label = out.label]
  /\ UNCHANGED <<memories, corpus, corpusOwner, evoCnt, evoThreshold, analysis,
                 nConsolidate, lastCall, callerArray>>

\* A variant that consolidates whenever the counter is at or past the threshold.
consolidationDue_AtLeast(cnt, threshold) == cnt >= threshold

\* this.evoCnt % this.evoThreshold === 0, for the counter just incremented.
consolidationDue(cnt, threshold) == cnt % threshold = 0

\* addNote after `await this.processMemory(note)`: the note is stored, its
\* document appended, the counter advanced and, at a multiple of the threshold,
\* the memories consolidated. pc tells how far it got: "failedIndex" threw
\* building the document (the note is stored already), "failedConsolidate"
\* threw inside consolidateMemories, "done" returned the id. The array addNote
\* passes to addDocuments is a literal no caller holds, and consolidateMemories
\* starts a new retriever.
Commit(p) ==
  /\ calls[p].pc = "decided"
  /\ LET stored == StorePut(memories, notes[p].id, p)
         doc == noteDocument(notes[p])
         indexed == addDocuments(corpus, <<Val(doc)>>)
         counted == IF calls[p].label THEN evoCnt + 1 ELSE evoCnt
         consolidates == calls[p].label /\ consolidationDue(counted, evoThreshold)
         rebuilt == consolidateMemories(notes, stored)
     IN /\ memories' = stored
        /\ IF ~IsDef(doc)
           THEN /\ calls' = [calls EXCEPT ![p].pc = "failedIndex"]
                /\ UNCHANGED <<corpus, corpusOwner, evoCnt, nConsolidate,
                               callerArray>>
           ELSE /\ evoCnt' = counted
                /\ IF consolidates
                   THEN /\ corpus' = rebuilt.corpus
                        /\ corpusOwner' = rebuilt.owners
                        /\ nConsolidate' = nConsolidate + 1
                        /\ callerArray' = None
                        /\ calls' = [calls EXCEPT
                                       ![p].pc = IF rebuilt.threw
                                                 THEN "failedConsolidate"
                                                 ELSE "done"]
                   ELSE /\ corpus' = indexed
                        /\ corpusOwner' = Append(corpusOwner, p)
                        /\ nConsolidate' = nConsolidate
                        /\ callerArray' = IF Len(corpus) = 0 THEN None
                                          ELSE callerArrayAfter(
                                                 corpus, callerArray, <<Val(doc)>>)
                        /\ calls' = [calls EXCEPT ![p].pc = "done"]
  /\ UNCHANGED <<notes, evoThreshold, analysis, lastCall>>

\* analyzeAndUpdateMetadata after the analysis call of note p settled with a.
AnalysisReturn(p, a) ==
  /\ analysis[p] = "pending"
  /\ analysis' = [analysis EXCEPT ![p] = "done"]
  /\ notes' = [notes EXCEPT ![p] = applyAnalysis(@, analyzeContent(a))]
  /\ UNCHANGED <<memories, corpus, corpusOwner, evoCnt, evoThreshold, calls,
                 nConsolidate, lastCall, callerArray>>

\* A direct call of SimpleEmbeddingRetriever.addDocuments (no note owns the
\* documents: owner 0).
AddDocuments(documents) ==
  /\ corpus' = addDocuments(corpus, documents)
  /\ corpusOwner' = corpusOwner \o [i \in 1..Len(documents) |-> 0]
  /\ lastCall' = [op |-> "addDocuments", documents |-> documents]
  /\ callerArray' = callerArrayAfter(corpus, callerArray, documents)
  /\ UNCHANGED <<notes, memories, evoCnt, evoThreshold, calls, analysis,
                 nConsolidate>>

\* The caller pushes a document onto the array it passed to addDocuments: the
\* array is this.corpus itself (documentIds is not told).
CallerPush(doc) ==
  /\ IsDef(callerArray)
  /\ callerArray' = Some(Append(Val(callerArray), doc))
  /\ corpus' = Append(corpus, doc)
  /\ corpusOwner' = Append(corpusOwner, 0)
  /\ lastCall' = [op |-> "callerPush", document |-> doc]
  /\ UNCHANGED <<notes, memories, evoCnt, evoThreshold, calls, analysis,
                 nConsolidate>>

\* A direct call of SimpleEmbeddingRetriever.search.
Search(query, k) ==
  /\ \E result \in searchOutcomes(corpus, query, k) :
       lastCall' = [op |-> "search", query |-> query, k |-> k, result |-> result]
  /\ corpus' = retrieverAfterSearch(corpus, query, k)
  /\ UNCHANGED <<notes, memories, corpusOwner, evoCnt, evoThreshold, calls,
                 analysis, nConsolidate, callerArray>>

\* A call of findRelatedMemoriesRaw: its body is synchronous, and the search in
\* it is the only call that reaches the retriever.
FindRelatedMemoriesRaw(query, k) ==
  /\ LET raw == findRelatedMemoriesRaw(notes, memories, corpus, query, k)
     IN lastCall' = [op |-> "findRelatedMemoriesRaw", query |-> query, k |-> k,
                     result |-> raw.memoryStr, threw |-> raw.threw]
  /\ corpus' = IF Len(memories) = 0 THEN corpus
               ELSE retrieverAfterSearch(corpus, query, k)
  /\ UNCHANGED <<notes, memories, corpusOwner, evoCnt, evoThreshold, calls,
                 analysis, nConsolidate, callerArray>>

\* The store under concurrent callers, caller-chosen ids and every kind of
\* completion: the threshold is the constructor's default.
DefaultThreshold == 100

Contents == {TxtA}
OptionSet == {NoOptions, WithId(1)}
DecisionSet == {Rejected, Unparseable, DontEvolve, UpdateNeighbor, NoActions}
AnalysisSet == {GoodAnalysis, Unparseable}

Init ==
  /\ InitStore
  /\ evoThreshold = DefaultThreshold

Next ==
  \/ /\ Len(notes) < MaxCalls
     /\ \E content \in Contents, options \in OptionSet : Invoke(content, options)
  \/ \E p \in 1..Len(calls) : BuildPrompt(p)
  \/ \E p \in 1..Len(calls), r \in DecisionSet : DecisionReturn(p, r)
  \/ \E p \in 1..Len(calls) : Commit(p)
  \/ \E p \in 1..Len(notes), a \in AnalysisSet : AnalysisReturn(p, a)

Spec == Init /\ [][Next]_vars

\* The evolution protocol and consolidation: every well-formed kind of decision,
\* notes with and without background analysis, thresholds from 1 on.
EvolveContents == {TxtA}
EvolveOptionSet == {NoOptions, WithMetadata}
EvolveDecisionSet ==
  {DontEvolve, Strengthen, StrengthenEmpty, UpdateNeighbor, UpdateTagsOnly}
EvolveAnalysisSet == {GoodAnalysis}

InitEvolve ==
  /\ InitStore
  /\ evoThreshold \in 1..MaxThreshold

NextEvolve ==
  \/ /\ Len(notes) < MaxEvolveCalls
     /\ \E content \in EvolveContents, options \in EvolveOptionSet :
          Invoke(content, options)
  \/ \E p \in 1..Len(calls) : BuildPrompt(p)
  \/ \E p \in 1..Len(calls), r \in EvolveDecisionSet : DecisionReturn(p, r)
  \/ \E p \in 1..Len(calls) : Commit(p)
  \/ \E p \in 1..Len(notes), a \in EvolveAnalysisSet : AnalysisReturn(p, a)

SpecEvolve == InitEvolve /\ [][NextEvolve]_vars

\* The counter and consolidation over longer runs: callers that give all the
\* metadata (no analysis is started), every well-formed kind of decision,
\* thresholds from 1 on.
ConsolidateContents == {TxtA}
ConsolidateOptionSet == {WithMetadata}
ConsolidateDecisionSet == {DontEvolve, Strengthen, UpdateNeighbor, UpdateTagsOnly}

NextConsolidate ==
  \/ /\ Len(notes) < MaxConsolidateCalls
     /\ \E content \in ConsolidateContents, options \in ConsolidateOptionSet :
          Invoke(content, options)
  \/ \E p \in 1..Len(calls) : BuildPrompt(p)
  \/ \E p \in 1..Len(calls), r \in ConsolidateDecisionSet : DecisionReturn(p, r)
  \/ \E p \in 1..Len(calls) : Commit(p)

SpecConsolidate == InitEvolve /\ [][NextConsolidate]_vars

\* A retriever used on its own: documents with one token, with a repeated
\* token, with upper case and punctuation, and with no token at all. The
\* queries are one token, a repeated token, two tokens in upper case with
\* punctuation, and a token no document has.
TxtAA == <<"a", " ", "a">>
TxtDot == <<".">>

RetrieverDocuments == {TxtA, TxtAA, TxtAB, TxtDot}
RetrieverQueries == {TxtA, TxtAA, TxtAB, TxtX}

\* The arrays of at most n documents.
Batches(n) == UNION {[1..m -> RetrieverDocuments] : m \in 0..n}

NextRetriever ==
  \/ \E documents \in Batches(MaxBatch) :
       /\ Len(corpus) + Len(documents) <= MaxCorpus
       /\ AddDocuments(documents)
  \/ \E query \in RetrieverQueries, k \in 0..MaxK : Search(query, k)
  \/ \E doc \in RetrieverDocuments :
       /\ Len(corpus) < MaxCorpus
       /\ CallerPush(doc)

SpecRetriever == Init /\ [][NextRetriever]_vars

\* The query operations on a store that one caller fills, awaiting each addNote,
\* while queries arrive at any point: notes that carry a link, decisions that
\* add links, and queries that match all, some or none of the documents.
MaxQueryCalls == 3

QueryContents == {TxtA}
QueryOptionSet == {WithMetadata}
QueryDecisionSet == {DontEvolve, StrengthenTwice}
Queries == {TxtA, TxtB, TxtX}

\* addNote has returned or thrown.
Settled(p) == calls[p].pc \in {"done", "rejected", "failedIndex", "failedConsolidate"}

NextQuery ==
  \/ /\ Len(notes) < MaxQueryCalls
     /\ \A p \in 1..Len(calls) : Settled(p)
     /\ \E content \in QueryContents, options \in QueryOptionSet :
          Invoke(content, options)
  \/ \E p \in 1..Len(calls) : BuildPrompt(p)
  \/ \E p \in 1..Len(calls), r \in QueryDecisionSet : DecisionReturn(p, r)
  \/ \E p \in 1..Len(calls) : Commit(p)
  \/ \E query \in Queries, k \in 0..MaxK : Search(query, k)
  \/ \E query \in Queries, k \in 0..MaxK : FindRelatedMemoriesRaw(query, k)

\* The threshold is the constructor's default, or 1: every evolution consolidates.
InitQuery ==
  /\ InitStore
  /\ evoThreshold \in {1, DefaultThreshold}

SpecQuery == InitQuery /\ [][NextQuery]_vars

\* The background analysis: callers that pass all, some or none of the metadata,
\* among them empty values, and every way the analysis call can settle.
MaxAnalysisCalls == 2

AnalysisContents == {TxtA}
AnalysisOptionSet == {NoOptions, WithMetadata, EmptyKeywords, EmptyContext}
AnalysisDecisionSet == {DontEvolve}
AnalysisCompletionSet == {GoodAnalysis, Unparseable, Rejected}

NextAnalysis ==
  \/ /\ Len(notes) < MaxAnalysisCalls
     /\ \E content \in AnalysisContents, options \in AnalysisOptionSet :
          Invoke(content, options)
  \/ \E p \in 1..Len(calls) : BuildPrompt(p)
  \/ \E p \in 1..Len(calls), r \in AnalysisDecisionSet : DecisionReturn(p, r)
  \/ \E p \in 1..Len(calls) : Commit(p)
  \/ \E p \in 1..Len(notes), a \in AnalysisCompletionSet : AnalysisReturn(p, a)

SpecAnalysis == Init /\ [][NextAnalysis]_vars

\* Stores of more records than the neighbour search asks for: one caller that
\* awaits each addNote, and decisions that name more neighbours than there are.
MaxNeighborCalls == 7

NeighborContents == {TxtA}
NeighborOptionSet == {WithMetadata}
NeighborDecisionSet == {DontEvolve, UpdateSix}

NextNeighbors ==
  \/ /\ Len(notes) < MaxNeighborCalls
     /\ \A p \in 1..Len(calls) : Settled(p)
     /\ \E content \in NeighborContents, options \in NeighborOptionSet :
          Invoke(content, options)
  \/ \E p \in 1..Len(calls) : BuildPrompt(p)
  \/ \E p \in 1..Len(calls), r \in NeighborDecisionSet : DecisionReturn(p, r)
  \/ \E p \in 1..Len(calls) : Commit(p)

SpecNeighbors == Init /\ [][NextNeighbors]_vars

\* ------------------------------------------------------------- properties

\* Notes that carry links, by their options and by "strengthen", added by one
\* caller that awaits each addNote, while findRelatedMemoriesRaw is called at any
\* point.
MaxLinkCalls == 2

LinkOptionSet == {WithMetadata, WithLinkOne}
LinkDecisionSet ==
  {DontEvolve, StrengthenStrengthen, ArchiveUpdateStrengthen, StrengthenThenThrow}

NextLinks ==
  \/ /\ Len(notes) < MaxLinkCalls
     /\ \A p \in 1..Len(calls) : Settled(p)
     /\ \E content \in QueryContents, options \in LinkOptionSet :
          Invoke(content, options)
  \/ \E p \in 1..Len(calls) : BuildPrompt(p)
  \/ \E p \in 1..Len(calls), r \in LinkDecisionSet : DecisionReturn(p, r)
  \/ \E p \in 1..Len(calls) : Commit(p)
  \/ \E k \in 0..MaxK : FindRelatedMemoriesRaw(TxtA, k)

SpecLinks == Init /\ [][NextLinks]_vars

\* A MemoryNote constructed on its own, new MemoryNote({content}), at clock
\* reading now.
Construct(now) ==
  /\ lastCall' = [op |-> "construct", now |-> now,
                  note |-> NewNoteAt(now, 0, TxtA, NoOptions)]
  /\ UNCHANGED <<notes, memories, corpus, corpusOwner, evoCnt, evoThreshold,
                 calls, analysis, nConsolidate, callerArray>>

\* Clock readings at the ends and in the middle of each field's range.
Dates ==
  [year : {1999, 2026}, month : {1, 12}, day : {1, 31}, hour : {0, 23},
   minute : {0, 7, 30, 59}, second : {0, 59}, ms : {0}]

NextClock == \E now \in Dates : Construct(now)

SpecClock == Init /\ [][NextClock]_vars


InFlight(p) == calls[p].pc \in {"searched", "awaiting", "decided"}
Failed(p) == calls[p].pc \in {"rejected", "failedIndex", "failedConsolidate"}

\* The step in which call p's processMemory handles its decision response.
DecisionStep(p) == calls[p].pc = "awaiting" /\ calls'[p].pc # "awaiting"

\* The step in which call p's addNote stores its note.
CommitStep(p) == calls[p].pc = "decided" /\ calls'[p].pc # "decided"

\* C1: the corpus holds exactly one document per stored memory, and the document at
\* position i belongs to the i-th record of Object.values(memories).
C1_CorpusAlignedWithStore ==
  /\ Len(corpus) = Len(memories)
  /\ \A i \in 1..Len(corpus) : corpusOwner[i] = memories[i].obj

\* C2: when a call's update_neighbor writes, every neighbour position it computed
\* at its search denotes the record it denoted then.
C2_PositionsDenoteSameRecords ==
  [][\A p \in 1..Len(calls) :
       (DecisionStep(p) /\ \E q \in 1..Len(notes) : q # p /\ notes'[q] # notes[q])
       => \A n \in 1..Len(calls[p].indices) :
            memories[calls[p].indices[n] + 1].obj = calls[p].snapshot[n]]_vars

\* C3: at most one addNote is between its neighbour search and its commit.
C3_AddNoteSerialized ==
  Cardinality({p \in 1..Len(calls) : InFlight(p)}) <= 1

\* C4: a decision call that rejected, or returned text that is no JSON, counts as
\* should_evolve = false: the call does not fail and its label is false.
C4_DecisionFailureIsNoEvolution ==
  \A p \in 1..Len(calls) :
    (IsDef(calls[p].response) /\ Val(calls[p].response).kind \in {"reject", "text"})
    => /\ calls[p].pc \in {"decided", "done"}
       /\ ~calls[p].label

\* C5: whatever string the completion calls return, addNote does not throw.
C5_NoResponseStringCrashes ==
  \A p \in 1..Len(calls) :
    (IsDef(calls[p].response) /\ Val(calls[p].response).kind # "reject")
    => ~Failed(p)

\* The decision response call p received, once it has one.
Response(p) == Val(calls[p].response)

\* The decision of call p returned an object with should_evolve = true.
SaidEvolve(p) ==
  /\ IsDef(calls[p].response)
  /\ Response(p).kind = "object"
  /\ Response(p).should_evolve

\* Call p's addNote stored and indexed its note and passed the counter.
Returned(p) == calls[p].pc \in {"done", "failedConsolidate"}

\* The committed notes whose decision returned should_evolve = true.
EvolvedCount == Cardinality({p \in 1..Len(calls) : Returned(p) /\ SaidEvolve(p)})

\* C6: consolidation runs exactly in the commit of a note whose decision said
\* should_evolve = true and that brings the count of such notes to a multiple of
\* the threshold; the counter is that count, the number of consolidations is
\* floor(count / threshold), and a note with should_evolve = false moves neither.
C6_ConsolidationAtMultiples ==
  [][/\ evoCnt' = EvolvedCount'
     /\ nConsolidate' = EvolvedCount' \div evoThreshold
     /\ (nConsolidate' # nConsolidate) =
          (\E p \in 1..Len(calls) :
             /\ CommitStep(p)
             /\ SaidEvolve(p)
             /\ EvolvedCount' = EvolvedCount + 1
             /\ EvolvedCount' % evoThreshold = 0)
     /\ \A p \in 1..Len(calls) :
          (CommitStep(p) /\ ~SaidEvolve(p))
          => evoCnt' = evoCnt /\ nConsolidate' = nConsolidate]_vars

\* Threshold 2: two evolved notes and one that is not have committed, and
\* consolidation ran once.
C6_Witness ==
  /\ evoThreshold = 2
  /\ EvolvedCount = 2
  /\ nConsolidate = 1
  /\ \E p \in 1..Len(calls) : calls[p].pc = "done" /\ ~SaidEvolve(p)

\* The commit of call p stores the very note object processMemory returned, under
\* its id, and writes no note.
StoresNote(p) ==
  CommitStep(p) =>
    /\ notes' = notes
    /\ \E i \in 1..Len(memories') : memories'[i] = [key |-> notes[p].id, obj |-> p]

IsStrengthenOnly(r) ==
  r.kind = "object" /\ r.should_evolve /\ r.actions = Some(<<"strengthen">>)

\* C7: on should_evolve = true with actions = ["strengthen"] the new note's links
\* become its prior links followed by suggested_connections, its tags become
\* tags_to_update, no other note is written, and that note is what is stored.
C7_StrengthenAppendsLinksReplacesTags ==
  [][\A p \in 1..Len(calls) :
       /\ (DecisionStep(p) /\ IsStrengthenOnly(Val(calls'[p].response)))
          => LET r == Val(calls'[p].response)
             IN /\ calls'[p].pc = "decided"
                /\ notes'[p].links = notes[p].links \o Val(r.suggested_connections)
                /\ notes'[p].tags = r.tags_to_update
                /\ \A q \in 1..Len(notes) : q # p => notes'[q] = notes[q]
       /\ StoresNote(p)]_vars

\* A note created with links [0] and tags ["y"] was strengthened with
\* suggested_connections [0] and tags_to_update ["x"] and is stored next to
\* another record.
C7_Witness ==
  \E p \in 1..Len(calls) :
    /\ calls[p].pc = "done"
    /\ calls[p].response = Some(Strengthen)
    /\ notes[p].links = <<0, 0>>
    /\ notes[p].tags = Some(<<TxtX>>)
    /\ Len(memories) >= 2
    /\ \E i \in 1..Len(memories) : memories[i].obj = p

IsUpdateNeighborOnly(r) ==
  r.kind = "object" /\ r.should_evolve /\ r.actions = Some(<<"update_neighbor">>)

\* C8: on should_evolve = true with actions = ["update_neighbor"], for each i below
\* min(|positions|, |new_tags_neighborhood|) the record at positions[i] gets the
\* tags new_tags_neighborhood[i], and the context new_context_neighborhood[i] when
\* there is one and keeps its context otherwise; nothing else of it changes, and
\* no other note, the new one included, is written.
C8_UpdateNeighborWritesPositions ==
  [][\A p \in 1..Len(calls) :
       (DecisionStep(p) /\ IsUpdateNeighborOnly(Val(calls'[p].response)))
       => LET r == Val(calls'[p].response)
              positions == calls[p].indices
              ntn == Val(r.new_tags_neighborhood)
              ncn == Val(r.new_context_neighborhood)
              written == 1..(IF Len(positions) < Len(ntn) THEN Len(positions)
                             ELSE Len(ntn))
              target(i) == memories[positions[i] + 1].obj
          IN /\ calls'[p].pc = "decided"
             /\ \A i \in written :
                  notes'[target(i)] =
                    [notes[target(i)] EXCEPT
                       !.tags = Some(ntn[i]),
                       !.context = IF i <= Len(ncn) THEN Some(ncn[i]) ELSE @]
             /\ \A q \in 1..Len(notes) :
                  (\A i \in written : target(i) # q) => notes'[q] = notes[q]]_vars

\* A call with two neighbours received two tag lists and one context: the first
\* neighbour has the new tags and the new context, the second the new tags and
\* the context it was created with.
C8_Witness ==
  \E p \in 1..Len(calls) :
    /\ calls[p].pc = "done"
    /\ calls[p].response = Some(UpdateNeighbor)
    /\ Len(calls[p].indices) = 2
    /\ LET first == notes[memories[calls[p].indices[1] + 1].obj]
           second == notes[memories[calls[p].indices[2] + 1].obj]
       IN /\ first.tags = Some(<<TxtY>>)
          /\ first.context = Some(TxtA)
          /\ second.tags = Some(<<TxtX>>)
          /\ second.context = Some(TxtB)

\* C9: on should_evolve = false the decision writes no note, whatever the other
\* fields of the response are, and the new note is stored as it is.
C9_NoEvolutionNoMutation ==
  [][\A p \in 1..Len(calls) :
       /\ (/\ DecisionStep(p)
           /\ Val(calls'[p].response).kind = "object"
           /\ ~Val(calls'[p].response).should_evolve)
          => /\ notes' = notes
             /\ calls'[p].pc = "decided"
             /\ ~calls'[p].label
       /\ StoresNote(p)]_vars

\* A note with a stored neighbour got should_evolve = false in a response that
\* also names both actions, and is stored with the links and tags it was given.
C9_Witness ==
  \E p \in 1..Len(calls) :
    /\ calls[p].pc = "done"
    /\ calls[p].response = Some(DontEvolve)
    /\ Len(calls[p].indices) >= 1
    /\ notes[p].links = <<0>>
    /\ notes[p].tags = Some(<<TxtY>>)
    /\ \E i \in 1..Len(memories) : memories[i].obj = p

\* The tokens of the strings of a list, in order.
RECURSIVE TokensOfAll(_)
TokensOfAll(ss) ==
  IF ss = <<>> THEN <<>> ELSE simpleTokenize(Head(ss)) \o TokensOfAll(Tail(ss))

\* The tokens of a record's encoding: content, context, keywords, tags.
EncodingTokens(memory) ==
  simpleTokenize(memory.content) \o simpleTokenize(Val(memory.context))
    \o TokensOfAll(Val(memory.keywords)) \o TokensOfAll(Val(memory.tags))

OnlyInRecord(ns, mem, corp, i, t) ==
  LET tokens == Range(simpleTokenize(t))
  IN /\ tokens # {}
     /\ tokens \cap Range(simpleTokenize(ns[mem[i].obj].content)) = {}
     /\ \A j \in 1..Len(corp) :
          j # i => tokens \cap Range(simpleTokenize(corp[j])) = {}

\* C11: right after a consolidation, a search (k >= 1) for a tag of a stored record
\* whose tokens occur nowhere else returns the position of that record: it is the
\* result for k = 1, which every result for a larger k starts with.
C11_UpdatedTagsSearchable ==
  [][nConsolidate' # nConsolidate
     => \A i \in 1..Len(memories') :
          \A g \in 1..Len(Val(notes'[memories'[i].obj].tags)) :
            LET t == Val(notes'[memories'[i].obj].tags)[g]
            IN OnlyInRecord(notes', memories', corpus', i, t)
               => search(corpus', t, 1) = <<i - 1>>]_vars

\* update_neighbor gave the second record the tags ["x"], a consolidation ran, and
\* the search for "x" with k = 1 returns that record's position.
C11_Witness ==
  /\ nConsolidate >= 1
  /\ Len(memories) >= 2
  /\ Len(corpus) = Len(memories)
  /\ notes[memories[2].obj].tags = Some(<<TxtX>>)
  /\ calls[memories[2].obj].response # Some(Strengthen)
  /\ OnlyInRecord(notes, memories, corpus, 2, TxtX)
  /\ search(corpus, TxtX, 1) = <<1>>

\* The records the store holds.
StoredRecords(ns, mem) == [i \in 1..Len(mem) |-> ns[mem[i].obj]]

\* C12: in a step that does not consolidate, the corpus stays as it is or gets one
\* document appended by the commit of an addNote, every document staying at its
\* position; a decision step, update_neighbor included, changes no document, and
\* one that edits a stored record changes no search result.
C12_CorpusAppendOnlyBetweenConsolidations ==
  [][nConsolidate' = nConsolidate
     => /\ \/ corpus' = corpus
           \/ /\ Len(corpus') = Len(corpus) + 1
              /\ SubSeq(corpus', 1, Len(corpus)) = corpus
              /\ \E p \in 1..Len(calls) : CommitStep(p)
        /\ \A p \in 1..Len(calls) :
             /\ CommitStep(p) => Len(corpus') = Len(corpus) + 1
             /\ DecisionStep(p)
                => /\ corpus' = corpus
                   /\ StoredRecords(notes', memories) # StoredRecords(notes, memories)
                      => \A q \in {TxtX, TxtY} :
                           search(corpus', q, NeighborK)
                             = search(corpus, q, NeighborK)]_vars

\* Two different documents are indexed, no consolidation has run, and
\* update_neighbor has given the first record the tags ["x"], which its document
\* does not carry.
C12_Witness ==
  /\ nConsolidate = 0
  /\ Len(corpus) = 2
  /\ Len(memories) = 2
  /\ corpus[1] # corpus[2]
  /\ notes[memories[1].obj].tags = Some(<<TxtX>>)
  /\ calls[memories[2].obj].response = Some(UpdateTagsOnly)
  /\ TxtX \notin Range(simpleTokenize(corpus[1]))

\* C13: before any consolidation, every token of a note's content scores above
\* zero, as a query, against the document addNote appended for the note.
C13_DocumentCarriesContent ==
  nConsolidate = 0
  => \A i \in 1..Len(corpus) :
       \A t \in Range(simpleTokenize(notes[corpusOwner[i]].content)) :
         LET score == Score(<<t>>, corpus[i])
         IN ~IsNaN(score) /\ score[1] > 0

\* The step is a direct search / a direct addDocuments.
SearchStep == lastCall' # lastCall /\ lastCall'.op = "search"
AddDocumentsStep == lastCall' # lastCall /\ lastCall'.op = "addDocuments"

\* A score as a number: a text without tokens shares no token with anything,
\* so that the NaN of 0 / 0 is read as the score 0, the reading kindest to the
\* code.
AsNumber(s) == IF IsNaN(s) THEN <<0, 1>> ELSE s

\* The scores search computes for the query of a search call, as numbers.
RECURSIVE AsNumbers(_)
AsNumbers(scores) ==
  IF scores = <<>> THEN <<>> ELSE <<AsNumber(Head(scores))>> \o AsNumbers(Tail(scores))

SearchScores(corp, call) == AsNumbers(ScoresOf(simpleTokenize(call.query), corp))

\* s >= t for scores that are numbers.
ScoreAtLeast(s, t) == s[1] * s[1] * t[2] >= t[1] * t[1] * s[2]

\* C14: a search with a non-empty query on a non-empty corpus returns at most k
\* positions, each a position of the corpus, no position twice, each document's
\* score at least the score of the document returned after it.
C14_SearchResultWellFormed ==
  [][(SearchStep /\ Len(corpus) > 0 /\ Len(lastCall'.query) > 0)
     => LET result == lastCall'.result
            scores == SearchScores(corpus, lastCall')
        IN /\ Len(result) <= lastCall'.k
           /\ \A n \in 1..Len(result) : result[n] \in 0..(Len(corpus) - 1)
           /\ \A m, n \in 1..Len(result) : m # n => result[m] # result[n]
           /\ \A n \in 1..(Len(result) - 1) :
                ScoreAtLeast(scores[result[n] + 1], scores[result[n + 1] + 1])]_vars

\* s = t for scores that are numbers.
SameScore(s, t) == s[1] * s[1] * t[2] = t[1] * t[1] * s[2]

\* C15: in a search, two documents with the same set of tokens get the same
\* score, however often a token is repeated in them.
C15_ScoreDependsOnTokenSets ==
  [][SearchStep
     => LET scores == SearchScores(corpus, lastCall')
        IN \A i, j \in 1..Len(corpus) :
             Range(simpleTokenize(corpus[i])) = Range(simpleTokenize(corpus[j]))
             => SameScore(scores[i], scores[j])]_vars

\* C16: search returns min(k, corpus length) positions, no document left out
\* scores above a returned one (every returned score is at least every score
\* left out), the returned scores do not increase, and documents of equal
\* score are returned in ascending position.
C16_SearchReturnsTopK ==
  [][SearchStep
     => LET result == lastCall'.result
            scores == SearchScores(corpus, lastCall')
            returned == {result[n] + 1 : n \in 1..Len(result)}
        IN /\ Len(result) = (IF lastCall'.k < Len(corpus) THEN lastCall'.k
                            ELSE Len(corpus))
           /\ \A i \in returned, j \in (1..Len(corpus)) \ returned :
                ScoreAtLeast(scores[i], scores[j])
           /\ \A m, n \in 1..Len(result) :
                (m < n /\ SameScore(scores[result[m] + 1], scores[result[n] + 1]))
                => result[m] < result[n]]_vars

\* A call of findRelatedMemoriesRaw, and the start of an addNote, whose
\* processMemory calls findRelatedMemories.
RawStep == lastCall' # lastCall /\ lastCall'.op = "findRelatedMemoriesRaw"
InvokeStep == Len(calls') = Len(calls) + 1

\* C17: queries against an empty system return empty results and never fail:
\* search on an empty corpus returns [] for any query and any k, search with
\* k = 0 returns [] on any corpus, findRelatedMemories on an empty store returns
\* ("", []) and findRelatedMemoriesRaw on an empty store returns "".
C17_EmptySystemQueriesReturnEmpty ==
  [][/\ (SearchStep /\ (Len(corpus) = 0 \/ lastCall'.k = 0))
          => lastCall'.result = <<>>
     /\ (InvokeStep /\ Len(memories) = 0)
          => /\ calls'[Len(calls')].pc = "searched"
             /\ calls'[Len(calls')].neighborMemory = <<>>
             /\ calls'[Len(calls')].indices = <<>>
     /\ (RawStep /\ Len(memories) = 0)
          => /\ lastCall'.result = <<>>
             /\ ~lastCall'.threw]_vars

\* An addNote has searched the empty store and waits for its decision, and
\* findRelatedMemoriesRaw has then returned "" for k > 0.
C17_Witness ==
  /\ Len(memories) = 0
  /\ Len(corpus) = 0
  /\ Len(calls) = 1
  /\ calls[1].pc = "awaiting"
  /\ calls[1].indices = <<>>
  /\ calls[1].neighborMemory = <<>>
  /\ lastCall.op = "findRelatedMemoriesRaw"
  /\ lastCall.k > 0
  /\ lastCall.result = <<>>
  /\ ~lastCall.threw

\* C18: addDocuments(docs) with non-empty docs leaves every corpus entry at its
\* position and appends docs in order at positions len .. len + |docs| - 1; a
\* text equal to an existing entry is kept as an entry of its own.
C18_AddDocumentsAppendsInOrder ==
  [][(AddDocumentsStep /\ Len(lastCall'.documents) > 0)
       => /\ Len(corpus') = Len(corpus) + Len(lastCall'.documents)
          /\ \A i \in 1..Len(corpus) : corpus'[i] = corpus[i]
          /\ \A n \in 1..Len(lastCall'.documents) :
               corpus'[Len(corpus) + n] = lastCall'.documents[n]]_vars

\* addDocuments has appended, to a corpus that held a document, documents among
\* which is the text of an entry the corpus held already and a text twice.
C18_Witness ==
  /\ lastCall.op = "addDocuments"
  /\ Len(lastCall.documents) = MaxBatch
  /\ Len(corpus) > Len(lastCall.documents)
  /\ \A n \in 1..Len(lastCall.documents) :
       corpus[Len(corpus) - Len(lastCall.documents) + n] = lastCall.documents[n]
  /\ \E i \in 1..(Len(corpus) - Len(lastCall.documents)) :
       corpus[i] = lastCall.documents[1]
  /\ lastCall.documents[1] = lastCall.documents[2]

\* C19: addDocuments([]) is a no-op in every retriever state: the corpus, its
\* length and every document's position are unchanged.
C19_AddNoDocumentsIsNoOp ==
  [][(AddDocumentsStep /\ Len(lastCall'.documents) = 0)
       => corpus' = corpus]_vars

\* addDocuments([]) has returned on a corpus that holds documents.
C19_Witness ==
  /\ lastCall.op = "addDocuments"
  /\ lastCall.documents = <<>>
  /\ Len(corpus) > 1

\* C20: search, findRelatedMemories and findRelatedMemoriesRaw are read-only:
\* they leave the corpus, every stored record and the evolution counter unchanged.
C20_QueriesAreReadOnly ==
  [][(SearchStep \/ RawStep \/ InvokeStep)
       => /\ corpus' = corpus
          /\ memories' = memories
          /\ StoredRecords(notes', memories') = StoredRecords(notes, memories)
          /\ evoCnt' = evoCnt]_vars

\* findRelatedMemoriesRaw has returned the lines of a hit and of a link, from a
\* store of two records whose counter has advanced, with k below the corpus length.
C20_Witness ==
  /\ lastCall.op = "findRelatedMemoriesRaw"
  /\ Len(lastCall.result) > 1
  /\ lastCall.k > 0
  /\ lastCall.k < Len(corpus)
  /\ Len(memories) = 2
  /\ Len(corpus) = 2
  /\ evoCnt > 0

\* C21: the content analyzer never throws, and for a completion that is no
\* well-formed {keywords, context, tags} object it gives keywords = [],
\* context = "General", tags = []: once the analysis of a note has been applied,
\* the note's keywords and tags are lists and its context is a string.
C21_AnalysisKeepsMetadataWellFormed ==
  \A p \in 1..Len(notes) :
    analysis[p] = "done"
      => /\ IsDef(notes[p].keywords)
         /\ IsDef(notes[p].context)
         /\ IsDef(notes[p].tags)

\* C22: what the caller passes takes precedence over the analysis: a record
\* stored by an addNote whose decision was should_evolve = false has the keywords,
\* the (non-empty) context and the tags the caller passed.
C22_OverridesTakePrecedence ==
  \A p \in 1..Len(calls) :
    (calls[p].pc = "done" /\ ~calls[p].label)
      => /\ IsDef(calls[p].data.keywords)
              => notes[p].keywords = calls[p].data.keywords
         /\ TruthyString(calls[p].data.context)
              => notes[p].context = calls[p].data.context
         /\ IsDef(calls[p].data.tags)
              => notes[p].tags = calls[p].data.tags

\* The caller passed keywords, context and tags.
SuppliesAll(data) == IsDef(data.keywords) /\ IsDef(data.context) /\ IsDef(data.tags)

\* C23: a note whose caller supplied all of keywords, context and tags has no
\* analysis call issued; a note for which one of them is missing has one.
C23_AnalysisOnlyWhenMetadataMissing ==
  \A p \in 1..Len(calls) :
    IF SuppliesAll(calls[p].data)
    THEN analysis[p] = "none"
    ELSE analysis[p] \in {"pending", "done"}

\* C24: the steps of one addNote run in sequence: once its decision call has been
\* issued, and from then on to the commit, the analysis of its note has returned
\* and has been applied.
C24_AnalysisBeforeDecision ==
  \A p \in 1..Len(calls) :
    calls[p].pc \in {"awaiting", "decided", "done"} => analysis[p] # "pending"

\* The lines of a transcript that are of a kind, and the positions they render.
RECURSIVE LinesOfKind(_, _)
LinesOfKind(memoryStr, kind) ==
  IF memoryStr = <<>> THEN <<>>
  ELSE (IF Head(memoryStr).kind = kind THEN <<Head(memoryStr).index>> ELSE <<>>)
         \o LinesOfKind(Tail(memoryStr), kind)

\* C25: in findRelatedMemoriesRaw(query, k) every retrieved position gets a line
\* of its own, in retrieval order, whatever the link counter: the lines of the
\* hits are the positions search(query, k) returns, in that order.
C25_EveryHitGetsItsLine ==
  [][(RawStep /\ Len(memories) > 0)
       => /\ ~lastCall'.threw
          /\ LinesOfKind(lastCall'.result, "hit")
               = search(corpus, lastCall'.query, lastCall'.k)]_vars

\* findRelatedMemoriesRaw(query, 2) has rendered a first hit with three links, at
\* the third of which the counter had reached k, and then the second hit.
C25_Witness ==
  /\ lastCall.op = "findRelatedMemoriesRaw"
  /\ lastCall.k = 2
  /\ Len(lastCall.result) >= 5
  /\ lastCall.result[1].kind = "hit"
  /\ \A n \in 2..4 : lastCall.result[n].kind = "link"
  /\ lastCall.result[5].kind = "hit"
  /\ lastCall.result[5].index # lastCall.result[1].index

\* C26: in findRelatedMemoriesRaw(query, k) the link traversal stops once k lines
\* of links have been emitted in the call, all hits counted together: a transcript
\* has at most k lines of links.
C26_AtMostKLinkLines ==
  [][RawStep => Len(LinesOfKind(lastCall'.result, "link")) <= lastCall'.k]_vars

\* C27: with k at least the number of stored memories, the transcript of
\* findRelatedMemoriesRaw(query, k) has a line for every stored memory, for any
\* query, one that shares no token with any document included.
C27_EveryMemoryWhenKCoversStore ==
  [][(RawStep /\ lastCall'.k >= Len(memories))
       => \A i \in 1..Len(memories) :
            (i - 1) \in Range(LinesOfKind(lastCall'.result, "hit"))]_vars

\* findRelatedMemoriesRaw("x", 2) has returned the lines of both memories of a
\* store none of whose documents has the token "x".
C27_Witness ==
  /\ lastCall.op = "findRelatedMemoriesRaw"
  /\ lastCall.query = TxtX
  /\ lastCall.k = 2
  /\ Len(memories) = 2
  /\ Len(corpus) = 2
  /\ \A n \in 1..Len(corpus) : "x" \notin Range(simpleTokenize(corpus[n]))
  /\ LinesOfKind(lastCall.result, "hit") = <<0, 1>>

\* C28: every addNote that returns adds one record to the store, under an id no
\* stored record has, and no step removes or replaces a record: the enumeration
\* of the store only grows at its end.
C28_StoreIsAppendOnly ==
  [][/\ Len(memories') >= Len(memories)
     /\ SubSeq(memories', 1, Len(memories)) = memories
     /\ \A p \in 1..Len(calls) :
          (CommitStep(p) /\ calls'[p].pc = "done")
            => /\ Len(memories') = Len(memories) + 1
               /\ \A i \in 1..Len(memories) : memories[i].key # notes[p].id]_vars

\* The fields of a record no operation writes.
Fixed(note) ==
  [id |-> note.id, content |-> note.content, timestamp |-> note.timestamp,
   importance_score |-> note.importance_score,
   retrieval_count |-> note.retrieval_count]

\* C29: no step changes the id, content, timestamp, importance_score or
\* retrieval_count of a stored record; a decision step changes nothing but the
\* tags and context of stored records other than its note, and the tags and links
\* of its note.
C29_EvolutionWritesOnlyTagsContextLinks ==
  [][/\ \A i \in 1..Len(memories) :
          Fixed(notes'[memories[i].obj]) = Fixed(notes[memories[i].obj])
     /\ \A p \in 1..Len(calls) :
          DecisionStep(p)
            => /\ [notes'[p] EXCEPT !.tags = notes[p].tags, !.links = notes[p].links]
                    = notes[p]
               /\ \A o \in 1..Len(notes) :
                    (o # p /\ notes'[o] # notes[o])
                      => /\ \E i \in 1..Len(memories) : memories[i].obj = o
                         /\ [notes'[o] EXCEPT !.tags = notes[o].tags,
                                               !.context = notes[o].context]
                              = notes[o]]_vars

\* update_neighbor has written the context "a" and the tags ["y"] to the first
\* stored record, whose other fields are as its constructor set them.
C29_Witness ==
  /\ Len(memories) = 2
  /\ calls[memories[2].obj].response = Some(UpdateNeighbor)
  /\ calls[memories[1].obj].data = WithMetadata
  /\ notes[memories[1].obj].context = Some(TxtA)
  /\ Fixed(notes[memories[1].obj])
       = Fixed(NewNote(memories[1].obj, TxtA, WithMetadata))

\* The positions are at most min(5, n) and each is in 0 .. n - 1.
NeighborPositions(indices, n) ==
  /\ Len(indices) <= Min(NeighborK, n)
  /\ \A m \in 1..Len(indices) : indices[m] \in 0..(n - 1)

\* C30: the decision protocol of an addNote uses at most min(5, n) positions of
\* neighbours, each in 0 .. n - 1, where n is the number of records stored before
\* the insertion: so are the positions it searches, those it holds when it
\* inserts, and the records its decision step writes are at those positions.
C30_AtMostFiveNeighborPositions ==
  [][/\ InvokeStep
          => NeighborPositions(calls'[Len(calls')].indices, Len(memories))
     /\ \A p \in 1..Len(calls) :
          /\ CommitStep(p) => NeighborPositions(calls[p].indices, Len(memories))
          /\ DecisionStep(p)
               => \A o \in 1..Len(notes) :
                    (o # p /\ notes'[o] # notes[o])
                      => \E m \in 1..Len(calls[p].indices) :
                           memories[calls[p].indices[m] + 1].obj = o]_vars

\* The seventh addNote, on a store of six records, has got five positions from
\* its search, and its decision, which named six neighbours, has written the
\* tags of five records and left the sixth as it was.
C30_Witness ==
  /\ Len(memories) = 7
  /\ Len(calls[7].indices) = NeighborK
  /\ calls[7].response = Some(UpdateSix)
  /\ \A q \in 1..6 : calls[q].response = Some(DontEvolve)
  /\ Cardinality({o \in 1..6 : notes[o].tags = Some(<<TxtX>>)}) = NeighborK
  /\ Cardinality({o \in 1..6 : notes[o].tags = Some(<<TxtY>>)}) = 1

\* C31: a record constructed without a caller's timestamp has, as timestamp and
\* as last_accessed, the twelve decimal digits YYYYMMDDHHmm of the clock reading
\* at its construction.
C31_TimestampIsTwelveDigits ==
  lastCall.op = "construct" =>
    LET now == lastCall.now
        note == lastCall.note
    IN /\ note.last_accessed = note.timestamp
       /\ Len(note.timestamp) = 12
       /\ \A i \in 1..Len(note.timestamp) : note.timestamp[i] \in Range(Digits)
       /\ note.timestamp = Pad(now.year, 4) \o Pad(now.month, 2)
                             \o Pad(now.day, 2) \o Pad(now.hour, 2)
                             \o Pad(now.minute, 2)

\* The effect of one entry of the actions list on the notes, after the entries
\* before it: nothing once an entry has thrown, and nothing for a name that is
\* neither "strengthen" nor "update_neighbor".
ActionEffect(done, mem, p, indices, r, actions, n) ==
  IF n > Len(actions) \/ done.threw THEN done
  ELSE CASE actions[n] = "strengthen" -> strengthen(done.notes, p, r)
         [] actions[n] = "update_neighbor" ->
              updateNeighbor(done.notes, mem, indices, r)
         [] OTHER -> done

\* C32: a decision with should_evolve true and a list of actions leaves the notes
\* as the effects of the first, then the second, then the third entry of the list
\* leave them, every occurrence of a name counting, and the call throws exactly
\* when one of these effects throws.
C32_ActionsAppliedInListOrder ==
  [][\A p \in 1..Len(calls) :
       (/\ DecisionStep(p)
        /\ Val(calls'[p].response).kind = "object"
        /\ Val(calls'[p].response).should_evolve
        /\ IsDef(Val(calls'[p].response).actions)
        /\ Len(Val(Val(calls'[p].response).actions)) <= 3)
       => LET r == Val(calls'[p].response)
              actions == Val(r.actions)
              indices == calls[p].indices
              first == ActionEffect([notes |-> notes, threw |-> FALSE], memories,
                                    p, indices, r, actions, 1)
              second == ActionEffect(first, memories, p, indices, r, actions, 2)
              third == ActionEffect(second, memories, p, indices, r, actions, 3)
          IN /\ notes' = third.notes
             /\ (calls'[p].pc = "rejected") = third.threw]_vars

\* A second note got "strengthen" twice with suggested_connections [0]: its
\* links are those of its options followed by 0 and 0 again; and a note whose
\* "strengthen" was followed by an action that threw keeps the appended link.
C32_Witness ==
  /\ Len(calls) = 2
  /\ calls[1].response = Some(StrengthenThenThrow)
  /\ calls[1].pc = "rejected"
  /\ notes[1].links = <<0, 0>>
  /\ calls[2].response = Some(StrengthenStrengthen)
  /\ calls[2].pc = "done"
  /\ notes[2].links = <<1, 0, 0>>

\* C33: every link of every stored record is a position of Object.values(memories),
\* and findRelatedMemoriesRaw never throws on a link.
C33_LinksAreValidPositions ==
  /\ \A i \in 1..Len(memories) :
       \A n \in 1..Len(notes[memories[i].obj].links) :
         /\ 0 <= notes[memories[i].obj].links[n]
         /\ notes[memories[i].obj].links[n] < Len(memories)
  /\ lastCall.op = "findRelatedMemoriesRaw" => ~lastCall.threw

\* C34: the step in which an addNote call throws or rejects leaves the store, its
\* records, the corpus and the evolution counter as they were.
C34_FailedAddNoteChangesNothing ==
  [][\A p \in 1..Len(calls) :
       (~Failed(p) /\ Failed(p)')
       => /\ memories' = memories
          /\ StoredRecords(notes', memories') = StoredRecords(notes, memories)
          /\ corpus' = corpus
          /\ evoCnt' = evoCnt]_vars

\* C35: once addNote has returned for a note, a step changes the note's keywords,
\* context or tags only if it is the decision step of another addNote.
C35_AnalysisNeverWritesAfterCommit ==
  [][\A p \in 1..Len(calls) :
       (/\ calls[p].pc = "done"
        /\ \/ notes'[p].keywords # notes[p].keywords
           \/ notes'[p].context # notes[p].context
           \/ notes'[p].tags # notes[p].tags)
       => \E q \in 1..Len(calls) : q # p /\ DecisionStep(q)]_vars

\* C36: at every suspension point the corpus has as many documents as the store
\* has records, and the evolution counter is the number of notes committed with
\* should_evolve true.
C36_CommitIsOneStep ==
  /\ Len(corpus) = Len(memories)
  /\ evoCnt = Cardinality({p \in 1..Len(calls) :
                             /\ calls[p].pc \in {"done", "failedConsolidate"}
                             /\ calls[p].label})

\* C37: for a query and a document with at least one token each, the count c of
\* common tokens satisfies c * c <= |tokens(query)| * |tokens(doc)| (the score
\* is at most 1), with equality only when both have the same set of tokens.
C37_ScoreWithinUnitInterval ==
  [][SearchStep
     => LET queryTokens == simpleTokenize(lastCall'.query)
            scores == ScoresOf(queryTokens, corpus)
        IN \A i \in 1..Len(corpus) :
             (Len(queryTokens) > 0 /\ Len(simpleTokenize(corpus[i])) > 0)
             => /\ scores[i][1] >= 0
                /\ scores[i][1] * scores[i][1] <= scores[i][2]
                /\ scores[i][1] * scores[i][1] = scores[i][2]
                   => Range(queryTokens) = Range(simpleTokenize(corpus[i]))]_vars

\* C38: an addDocuments call leaves the array a caller passed to an earlier
\* addDocuments as it was, and a caller's change of the array it passed leaves
\* the corpus as it was.
C38_RetrieverOwnsItsCorpus ==
  [][/\ (AddDocumentsStep /\ IsDef(callerArray)) => callerArray' = callerArray
     /\ (lastCall' # lastCall /\ lastCall'.op = "callerPush") => corpus' = corpus]_vars

\* The links of the records at the positions given, one after another.
RECURSIVE DirectLinks(_, _, _)
DirectLinks(ns, mem, indices) ==
  IF indices = <<>> THEN <<>>
  ELSE (IF Head(indices) < Len(mem) THEN ns[mem[Head(indices) + 1].obj].links
        ELSE <<>>)
         \o DirectLinks(ns, mem, Tail(indices))

\* C39: findRelatedMemoriesRaw(query, k) returns or throws after at most one line
\* per hit and one line per direct link of a hit: with the hits it rendered (the
\* positions of its hit lines), the transcript has no more lines than hits plus
\* links of hits, no more link lines than links of hits, and every link line
\* renders a position some hit links to directly.
C39_RawFollowsDirectLinksOnly ==
  [][(RawStep /\ Len(memories) > 0)
       => LET indices == LinesOfKind(lastCall'.result, "hit")
              direct == DirectLinks(notes, memories, indices)
              linkLines == LinesOfKind(lastCall'.result, "link")
          IN /\ Len(indices) <= lastCall'.k
             /\ Len(lastCall'.result) <= Len(indices) + Len(direct)
             /\ Len(linkLines) <= Len(direct)
             /\ Range(linkLines) \subseteq Range(direct)]_vars

\* A query has returned on a store of two records that link to each other, the
\* second to itself as well, with the lines of two links in the transcript.
C39_Witness ==
  /\ lastCall.op = "findRelatedMemoriesRaw"
  /\ ~lastCall.threw
  /\ Len(memories) = 2
  /\ 1 \in Range(notes[memories[1].obj].links)
  /\ {0, 1} \subseteq Range(notes[memories[2].obj].links)
  /\ Len(LinesOfKind(lastCall.result, "link")) >= 2

====
